---- MODULE Spec2Model ----
(***************************************************************************)
(* A model of the Lexon/HPX interpreter (src/lexon_interpreter.py).        *)
(*                                                                         *)
(* Text is a sequence of one-character strings.  A program is a sequence   *)
(* of raw lines, each ending in a newline as readlines() returns them.     *)
(* The recursion of run_block / handle_when / handle_repeat_until /        *)
(* handle_forever is an explicit call stack of frames.  A block (the list  *)
(* collect_block builds) is always a contiguous copy of lines of the       *)
(* program, so a frame holds it as the pair (lo, n): n lines starting      *)
(* after program offset lo.  Indices i, end and the values the handlers    *)
(* return are relative to the frame's own list, as in the source.          *)
(***************************************************************************)
EXTENDS Integers, Sequences, FiniteSets, TLC

\* Bound on the number of recorded steps of one run (forever loops).
MaxSteps == 60

\* Bound on the length of the expression texts that are normalized.
MaxExprLen == 5

(***************************************************************************)
(* Text helpers (Python str methods)                                       *)
(***************************************************************************)
SP == " "
NL == "\n"
Whitespace == {SP, NL}
Digits == <<"0", "1", "2", "3", "4", "5", "6", "7", "8", "9">>
DigitSet == {Digits[d] : d \in 1..10}
LetterSet == {"a", "b", "c", "d", "e", "f", "g", "h", "i", "j", "k", "l", "m",
              "n", "o", "p", "q", "r", "s", "t", "u", "v", "w", "x", "y", "z"}
\* The characters of the model in ASCII order (for str comparison).
Ascii == <<"\n", " ", "!", "#", "(", ")", "+", "0", "1", "2", "3", "4", "5",
           "6", "7", "8", "9", "<", "=", ">", "F", "T",
           "a", "b", "c", "d", "e", "f", "g", "h", "i", "j", "k", "l", "m",
           "n", "o", "p", "q", "r", "s", "t", "u", "v", "w", "x", "y", "z">>

RECURSIVE lstrip(_)
lstrip(s) ==
    IF s # <<>> /\ Head(s) \in Whitespace THEN lstrip(Tail(s)) ELSE s

RECURSIVE rstrip(_)
rstrip(s) ==
    IF s # <<>> /\ s[Len(s)] \in Whitespace
        THEN rstrip(SubSeq(s, 1, Len(s) - 1))
        ELSE s

strip(s) == rstrip(lstrip(s))

startswith(s, p) == Len(s) >= Len(p) /\ SubSeq(s, 1, Len(p)) = p

endswith(s, p) == Len(s) >= Len(p) /\ SubSeq(s, Len(s) - Len(p) + 1, Len(s)) = p

\* s[k:] with a 0-based k
From(s, k) == SubSeq(s, k + 1, Len(s))

\* Position of the first space of s, 0 when there is none.
RECURSIVE FindSpace(_, _)
FindSpace(s, p) ==
    IF p > Len(s) THEN 0
    ELSE IF s[p] = SP THEN p
    ELSE FindSpace(s, p + 1)

\* line.split(" ", maxsplit): at most maxsplit cuts, each at one space.
RECURSIVE split(_, _)
split(s, maxsplit) ==
    LET p == FindSpace(s, 1) IN
    IF maxsplit = 0 \/ p = 0 THEN <<s>>
    ELSE <<SubSeq(s, 1, p - 1)>> \o split(From(s, p), maxsplit - 1)

(***************************************************************************)
(* Values: int, bool, str and the builtin callables, in one record shape.  *)
(***************************************************************************)
IntV(k) == [t |-> "int", n |-> k, s |-> <<>>]
BoolV(b) == [t |-> "bool", n |-> IF b THEN 1 ELSE 0, s |-> <<>>]
StrV(txt) == [t |-> "str", n |-> 0, s |-> txt]
FnV(name) == [t |-> "fn", n |-> 0, s |-> name]
NoneV == [t |-> "none", n |-> 0, s |-> <<>>]

IsNum(v) == v.t \in {"int", "bool"}

\* Python truth value of a value
Truthy(v) ==
    CASE v.t = "int" -> v.n # 0
      [] v.t = "bool" -> v.n = 1
      [] v.t = "str" -> v.s # <<>>
      [] v.t = "fn" -> TRUE
      [] OTHER -> FALSE

\* _eval_env: the four builtin names
Builtins == {<<"w", "h", "o", "l", "e">>,
             <<"d", "e", "c", "i", "m", "a", "l">>,
             <<"l", "e", "t", "t", "e", "r", "s">>,
             <<"a", "s", "k">>}

\* str(int) for a natural number
RECURSIVE IntText(_)
IntText(k) ==
    IF k < 10 THEN <<Digits[k + 1]>>
    ELSE IntText(k \div 10) \o <<Digits[(k % 10) + 1]>>

\* print(value): the text written
Render(v) ==
    CASE v.t = "int" -> IntText(v.n)
      [] v.t = "bool" -> IF v.n = 1 THEN <<"T", "r", "u", "e">>
                         ELSE <<"F", "a", "l", "s", "e">>
      [] v.t = "str" -> v.s
      [] OTHER -> <<"<", v.t, ">">>

(***************************************************************************)
(* Expression evaluation                                                   *)
(***************************************************************************)
\* The wrong rewriting: every "=" not followed by "=" becomes "==".
NormalizeNoLookbehind(expr) ==
    LET RECURSIVE go(_)
        go(p) ==
            IF p > Len(expr) THEN <<>>
            ELSE IF expr[p] = "="
                    /\ (p = Len(expr) \/ expr[p + 1] # "=")
                 THEN <<"=", "=">> \o go(p + 1)
                 ELSE <<expr[p]>> \o go(p + 1)
    IN go(1)

\* re.sub(r'(?<![!<>=])=(?![=])', '==', expr)
_normalize_equality(expr) ==
    LET RECURSIVE go(_)
        go(p) ==
            IF p > Len(expr) THEN <<>>
            ELSE IF expr[p] = "="
                    /\ (p = 1 \/ expr[p - 1] \notin {"!", "<", ">", "="})
                    /\ (p = Len(expr) \/ expr[p + 1] # "=")
                 THEN <<"=", "=">> \o go(p + 1)
                 ELSE <<expr[p]>> \o go(p + 1)
    IN go(1)

IsAlnum(c) == c \in DigitSet \cup LetterSet

\* Length of the run of alphanumerics of s that starts at position p.
RECURSIVE AlnumRun(_, _)
AlnumRun(s, p) ==
    IF p <= Len(s) /\ IsAlnum(s[p]) THEN 1 + AlnumRun(s, p + 1) ELSE 0

TwoCharOps == {<<"=", "=">>, <<"!", "=">>, <<"<", "=">>, <<">", "=">>}

\* The host tokenizer on the model's expression language: names and
\* numbers are maximal alphanumeric runs, operators are matched longest
\* first, white space separates tokens.
RECURSIVE Tokenize(_)
Tokenize(s) ==
    IF s = <<>> THEN <<>>
    ELSE IF Head(s) \in Whitespace THEN Tokenize(Tail(s))
    ELSE IF IsAlnum(Head(s))
        THEN LET r == AlnumRun(s, 1)
             IN <<SubSeq(s, 1, r)>> \o Tokenize(From(s, r))
    ELSE IF Len(s) >= 2 /\ SubSeq(s, 1, 2) \in TwoCharOps
        THEN <<SubSeq(s, 1, 2)>> \o Tokenize(From(s, 2))
    ELSE <<SubSeq(s, 1, 1)>> \o Tokenize(From(s, 1))

AllDigits(tok) == tok # <<>> /\ \A p \in 1..Len(tok) : tok[p] \in DigitSet

DigitVal(c) == (CHOOSE d \in 1..10 : Digits[d] = c) - 1

RECURSIVE NumVal(_)
NumVal(tok) ==
    IF tok = <<>> THEN 0
    ELSE NumVal(SubSeq(tok, 1, Len(tok) - 1)) * 10 + DigitVal(tok[Len(tok)])

IsName(tok) == tok # <<>> /\ tok[1] \in LetterSet
                /\ \A p \in 1..Len(tok) : IsAlnum(tok[p])

Ok(v) == [ok |-> TRUE, val |-> v, cause |-> "", text |-> <<>>]
Fail(why) == [ok |-> FALSE, val |-> NoneV, cause |-> why, text |-> <<>>]

\* An operand: a decimal literal, or a name looked up in
\* {**env, **self.variables} (variables shadow the builtins).
Atom(tok, bindings) ==
    IF AllDigits(tok)
        THEN IF Len(tok) > 1 /\ tok[1] = "0" /\ NumVal(tok) # 0
                THEN Fail("SyntaxError")
                ELSE Ok(IntV(NumVal(tok)))
    ELSE IF IsName(tok)
        THEN IF tok \in DOMAIN bindings THEN Ok(bindings[tok])
             ELSE IF tok \in Builtins THEN Ok(FnV(tok))
             ELSE Fail("NameError")
    ELSE Fail("SyntaxError")

CharCode(c) == CHOOSE k \in 1..Len(Ascii) : Ascii[k] = c

\* a < b on str values
RECURSIVE TextLess(_, _)
TextLess(a, b) ==
    IF b = <<>> THEN FALSE
    ELSE IF a = <<>> THEN TRUE
    ELSE IF Head(a) = Head(b) THEN TextLess(Tail(a), Tail(b))
    ELSE CharCode(Head(a)) < CharCode(Head(b))

ValEq(a, b) ==
    IF IsNum(a) /\ IsNum(b) THEN a.n = b.n
    ELSE a.t = b.t /\ a.s = b.s

Ordered(a, b) == (IsNum(a) /\ IsNum(b)) \/ (a.t = "str" /\ b.t = "str")

ValLess(a, b) == IF IsNum(a) THEN a.n < b.n ELSE TextLess(a.s, b.s)

BinOps == {<<"=", "=">>, <<"!", "=">>, <<"<", "=">>, <<">", "=">>,
           <<"<">>, <<">">>, <<"+">>}

Apply(op, a, b) ==
    CASE op = <<"=", "=">> -> Ok(BoolV(ValEq(a, b)))
      [] op = <<"!", "=">> -> Ok(BoolV(~ValEq(a, b)))
      [] op = <<"+">> ->
            IF IsNum(a) /\ IsNum(b) THEN Ok(IntV(a.n + b.n))
            ELSE IF a.t = "str" /\ b.t = "str" THEN Ok(StrV(a.s \o b.s))
            ELSE Fail("TypeError")
      [] OTHER ->
            IF ~Ordered(a, b) THEN Fail("TypeError")
            ELSE CASE op = <<"<">> -> Ok(BoolV(ValLess(a, b)))
                   [] op = <<">">> -> Ok(BoolV(ValLess(b, a)))
                   [] op = <<"<", "=">> -> Ok(BoolV(~ValLess(b, a)))
                   [] OTHER -> Ok(BoolV(~ValLess(a, b)))

\* eval(expr, {}, {**env, **self.variables}) on the model's expression
\* language: <operand> or <operand> <operator> <operand>.  The locals are a
\* fresh dict, so the call cannot change self.variables.
eval(expr, bindings) ==
    LET toks == Tokenize(expr) IN
    IF Len(toks) = 1 THEN Atom(toks[1], bindings)
    ELSE IF Len(toks) = 3 /\ toks[2] \in BinOps
        THEN LET a == Atom(toks[1], bindings)
                 b == Atom(toks[3], bindings)
             IN IF Atom(toks[1], bindings).cause = "SyntaxError"
                   \/ Atom(toks[3], bindings).cause = "SyntaxError"
                    THEN Fail("SyntaxError")
                ELSE IF ~a.ok THEN a
                ELSE IF ~b.ok THEN b
                ELSE Apply(toks[2], a.val, b.val)
    ELSE Fail("SyntaxError")

\* Interpreter.evaluate: the result, or the HPXError "Invalid expression
\* `{expr}`: {e}" whose text is the local expr after it was reassigned.
evaluate(expr, bindings) ==
    LET stripped == strip(expr)
        normalized == _normalize_equality(stripped)
        r == eval(normalized, bindings)
    IN IF r.ok THEN r ELSE [r EXCEPT !.text = normalized]

(***************************************************************************)
(* Programs: the line sequences execute is given.                          *)
(***************************************************************************)
\* A raw line as readlines() returns it: indentation, text, newline.
Ln(ind, text) == [j \in 1..ind |-> SP] \o text \o <<NL>>

\* stop inside a conditional inside two forever loops:
\*   |keep n to 0
\*   |forever
\*   |  keep n to n + 1
\*   |  forever
\*   |    when n > 0
\*   |      stop
\*   |    complete
\*   |      say(0)
\*   |    keep z to 9
\*   |  keep m to n
\*   |  when n = 2
\*   |    say(n)
\*   |    stop
\*   |  keep q to 1
\*   |say(m)
NestedForever ==
    <<Ln(0, <<"k", "e", "e", "p", " ", "n", " ", "t", "o", " ", "0">>),
      Ln(0, <<"f", "o", "r", "e", "v", "e", "r">>),
      Ln(2, <<"k", "e", "e", "p", " ", "n", " ", "t", "o", " ", "n", " ", "+", " ", "1">>),
      Ln(2, <<"f", "o", "r", "e", "v", "e", "r">>),
      Ln(4, <<"w", "h", "e", "n", " ", "n", " ", ">", " ", "0">>),
      Ln(6, <<"s", "t", "o", "p">>),
      Ln(4, <<"c", "o", "m", "p", "l", "e", "t", "e">>),
      Ln(6, <<"s", "a", "y", "(", "0", ")">>),
      Ln(4, <<"k", "e", "e", "p", " ", "z", " ", "t", "o", " ", "9">>),
      Ln(2, <<"k", "e", "e", "p", " ", "m", " ", "t", "o", " ", "n">>),
      Ln(2, <<"w", "h", "e", "n", " ", "n", " ", "=", " ", "2">>),
      Ln(4, <<"s", "a", "y", "(", "n", ")">>),
      Ln(4, <<"s", "t", "o", "p">>),
      Ln(2, <<"k", "e", "e", "p", " ", "q", " ", "t", "o", " ", "1">>),
      Ln(0, <<"s", "a", "y", "(", "m", ")">>)>>

\* stop under two conditionals inside nested repeat until loops:
\*   |keep n to 0
\*   |repeat until n = 2
\*   |  keep n to n + 1
\*   |  repeat until 0
\*   |    when 1
\*   |      when n
\*   |        stop
\*   |    say(7)
\*   |  keep m to n
\*   |  say(m)
\*   |say(9)
NestedRepeat ==
    <<Ln(0, <<"k", "e", "e", "p", " ", "n", " ", "t", "o", " ", "0">>),
      Ln(0, <<"r", "e", "p", "e", "a", "t", " ", "u", "n", "t", "i", "l", " ", "n", " ", "=", " ", "2">>),
      Ln(2, <<"k", "e", "e", "p", " ", "n", " ", "t", "o", " ", "n", " ", "+", " ", "1">>),
      Ln(2, <<"r", "e", "p", "e", "a", "t", " ", "u", "n", "t", "i", "l", " ", "0">>),
      Ln(4, <<"w", "h", "e", "n", " ", "1">>),
      Ln(6, <<"w", "h", "e", "n", " ", "n">>),
      Ln(8, <<"s", "t", "o", "p">>),
      Ln(4, <<"s", "a", "y", "(", "7", ")">>),
      Ln(2, <<"k", "e", "e", "p", " ", "m", " ", "t", "o", " ", "n">>),
      Ln(2, <<"s", "a", "y", "(", "m", ")">>),
      Ln(0, <<"s", "a", "y", "(", "9", ")">>)>>

\* stop at top level:
\*   |keep x to 1
\*   |stop
\*   |say(x)
StopTop ==
    <<Ln(0, <<"k", "e", "e", "p", " ", "x", " ", "t", "o", " ", "1">>),
      Ln(0, <<"s", "t", "o", "p">>),
      Ln(0, <<"s", "a", "y", "(", "x", ")">>)>>

\* stop in a conditional that is in no loop:
\*   |when 1
\*   |  stop
\*   |say(1)
StopInWhen ==
    <<Ln(0, <<"w", "h", "e", "n", " ", "1">>),
      Ln(2, <<"s", "t", "o", "p">>),
      Ln(0, <<"s", "a", "y", "(", "1", ")">>)>>

\* stop in a complete arm after a loop has ended:
\*   |forever
\*   |  stop
\*   |when 0
\*   |  say(0)
\*   |complete
\*   |  stop
\*   |say(1)
StopAfterLoop ==
    <<Ln(0, <<"f", "o", "r", "e", "v", "e", "r">>),
      Ln(2, <<"s", "t", "o", "p">>),
      Ln(0, <<"w", "h", "e", "n", " ", "0">>),
      Ln(2, <<"s", "a", "y", "(", "0", ")">>),
      Ln(0, <<"c", "o", "m", "p", "l", "e", "t", "e">>),
      Ln(2, <<"s", "t", "o", "p">>),
      Ln(0, <<"s", "a", "y", "(", "1", ")">>)>>

\* four arms, x bound to 0:
\*   |keep x to 0
\*   |when x = 1
\*   |  say(1)
\*   |or x = 2
\*   |  say(2)
\*   |or x > 1
\*   |  say(3)
\*   |complete
\*   |  say(4)
\*   |say(x)
Arms0 ==
    <<Ln(0, <<"k", "e", "e", "p", " ", "x", " ", "t", "o", " ", "0">>),
      Ln(0, <<"w", "h", "e", "n", " ", "x", " ", "=", " ", "1">>),
      Ln(2, <<"s", "a", "y", "(", "1", ")">>),
      Ln(0, <<"o", "r", " ", "x", " ", "=", " ", "2">>),
      Ln(2, <<"s", "a", "y", "(", "2", ")">>),
      Ln(0, <<"o", "r", " ", "x", " ", ">", " ", "1">>),
      Ln(2, <<"s", "a", "y", "(", "3", ")">>),
      Ln(0, <<"c", "o", "m", "p", "l", "e", "t", "e">>),
      Ln(2, <<"s", "a", "y", "(", "4", ")">>),
      Ln(0, <<"s", "a", "y", "(", "x", ")">>)>>

\* four arms, x bound to 1:
\*   |keep x to 1
\*   |when x = 1
\*   |  say(1)
\*   |or x = 2
\*   |  say(2)
\*   |or x > 1
\*   |  say(3)
\*   |complete
\*   |  say(4)
\*   |say(x)
Arms1 ==
    <<Ln(0, <<"k", "e", "e", "p", " ", "x", " ", "t", "o", " ", "1">>),
      Ln(0, <<"w", "h", "e", "n", " ", "x", " ", "=", " ", "1">>),
      Ln(2, <<"s", "a", "y", "(", "1", ")">>),
      Ln(0, <<"o", "r", " ", "x", " ", "=", " ", "2">>),
      Ln(2, <<"s", "a", "y", "(", "2", ")">>),
      Ln(0, <<"o", "r", " ", "x", " ", ">", " ", "1">>),
      Ln(2, <<"s", "a", "y", "(", "3", ")">>),
      Ln(0, <<"c", "o", "m", "p", "l", "e", "t", "e">>),
      Ln(2, <<"s", "a", "y", "(", "4", ")">>),
      Ln(0, <<"s", "a", "y", "(", "x", ")">>)>>

\* four arms, x bound to 2:
\*   |keep x to 2
\*   |when x = 1
\*   |  say(1)
\*   |or x = 2
\*   |  say(2)
\*   |or x > 1
\*   |  say(3)
\*   |complete
\*   |  say(4)
\*   |say(x)
Arms2 ==
    <<Ln(0, <<"k", "e", "e", "p", " ", "x", " ", "t", "o", " ", "2">>),
      Ln(0, <<"w", "h", "e", "n", " ", "x", " ", "=", " ", "1">>),
      Ln(2, <<"s", "a", "y", "(", "1", ")">>),
      Ln(0, <<"o", "r", " ", "x", " ", "=", " ", "2">>),
      Ln(2, <<"s", "a", "y", "(", "2", ")">>),
      Ln(0, <<"o", "r", " ", "x", " ", ">", " ", "1">>),
      Ln(2, <<"s", "a", "y", "(", "3", ")">>),
      Ln(0, <<"c", "o", "m", "p", "l", "e", "t", "e">>),
      Ln(2, <<"s", "a", "y", "(", "4", ")">>),
      Ln(0, <<"s", "a", "y", "(", "x", ")">>)>>

\* four arms, x bound to 3:
\*   |keep x to 3
\*   |when x = 1
\*   |  say(1)
\*   |or x = 2
\*   |  say(2)
\*   |or x > 1
\*   |  say(3)
\*   |complete
\*   |  say(4)
\*   |say(x)
Arms3 ==
    <<Ln(0, <<"k", "e", "e", "p", " ", "x", " ", "t", "o", " ", "3">>),
      Ln(0, <<"w", "h", "e", "n", " ", "x", " ", "=", " ", "1">>),
      Ln(2, <<"s", "a", "y", "(", "1", ")">>),
      Ln(0, <<"o", "r", " ", "x", " ", "=", " ", "2">>),
      Ln(2, <<"s", "a", "y", "(", "2", ")">>),
      Ln(0, <<"o", "r", " ", "x", " ", ">", " ", "1">>),
      Ln(2, <<"s", "a", "y", "(", "3", ")">>),
      Ln(0, <<"c", "o", "m", "p", "l", "e", "t", "e">>),
      Ln(2, <<"s", "a", "y", "(", "4", ")">>),
      Ln(0, <<"s", "a", "y", "(", "x", ")">>)>>

\* an or arm and a second complete after a complete arm:
\*   |when 0
\*   |  say(1)
\*   |complete
\*   |  say(2)
\*   |or 1
\*   |  say(3)
\*   |complete
\*   |  say(4)
\*   |say(5)
CompleteThenOr ==
    <<Ln(0, <<"w", "h", "e", "n", " ", "0">>),
      Ln(2, <<"s", "a", "y", "(", "1", ")">>),
      Ln(0, <<"c", "o", "m", "p", "l", "e", "t", "e">>),
      Ln(2, <<"s", "a", "y", "(", "2", ")">>),
      Ln(0, <<"o", "r", " ", "1">>),
      Ln(2, <<"s", "a", "y", "(", "3", ")">>),
      Ln(0, <<"c", "o", "m", "p", "l", "e", "t", "e">>),
      Ln(2, <<"s", "a", "y", "(", "4", ")">>),
      Ln(0, <<"s", "a", "y", "(", "5", ")">>)>>

\* no arm matches and there is no complete arm:
\*   |keep x to 0
\*   |when x
\*   |  say(1)
\*   |or x > 0
\*   |  say(2)
\*   |say(3)
NoArm ==
    <<Ln(0, <<"k", "e", "e", "p", " ", "x", " ", "t", "o", " ", "0">>),
      Ln(0, <<"w", "h", "e", "n", " ", "x">>),
      Ln(2, <<"s", "a", "y", "(", "1", ")">>),
      Ln(0, <<"o", "r", " ", "x", " ", ">", " ", "0">>),
      Ln(2, <<"s", "a", "y", "(", "2", ")">>),
      Ln(0, <<"s", "a", "y", "(", "3", ")">>)>>

\* repeat until count = 3 from 0:
\*   |keep count to 0
\*   |repeat until count = 3
\*   |  keep count to count + 1
\*   |say(count)
Count0 ==
    <<Ln(0, <<"k", "e", "e", "p", " ", "c", "o", "u", "n", "t", " ", "t", "o", " ", "0">>),
      Ln(0, <<"r", "e", "p", "e", "a", "t", " ", "u", "n", "t", "i", "l", " ", "c", "o", "u", "n", "t", " ", "=", " ", "3">>),
      Ln(2, <<"k", "e", "e", "p", " ", "c", "o", "u", "n", "t", " ", "t", "o", " ", "c", "o", "u", "n", "t", " ", "+", " ", "1">>),
      Ln(0, <<"s", "a", "y", "(", "c", "o", "u", "n", "t", ")">>)>>

\* repeat until count = 3 from 2:
\*   |keep count to 2
\*   |repeat until count = 3
\*   |  keep count to count + 1
\*   |say(count)
Count2 ==
    <<Ln(0, <<"k", "e", "e", "p", " ", "c", "o", "u", "n", "t", " ", "t", "o", " ", "2">>),
      Ln(0, <<"r", "e", "p", "e", "a", "t", " ", "u", "n", "t", "i", "l", " ", "c", "o", "u", "n", "t", " ", "=", " ", "3">>),
      Ln(2, <<"k", "e", "e", "p", " ", "c", "o", "u", "n", "t", " ", "t", "o", " ", "c", "o", "u", "n", "t", " ", "+", " ", "1">>),
      Ln(0, <<"s", "a", "y", "(", "c", "o", "u", "n", "t", ")">>)>>

\* repeat until count = 3 from 3: no iteration:
\*   |keep count to 3
\*   |repeat until count = 3
\*   |  keep count to count + 1
\*   |say(count)
Count3 ==
    <<Ln(0, <<"k", "e", "e", "p", " ", "c", "o", "u", "n", "t", " ", "t", "o", " ", "3">>),
      Ln(0, <<"r", "e", "p", "e", "a", "t", " ", "u", "n", "t", "i", "l", " ", "c", "o", "u", "n", "t", " ", "=", " ", "3">>),
      Ln(2, <<"k", "e", "e", "p", " ", "c", "o", "u", "n", "t", " ", "t", "o", " ", "c", "o", "u", "n", "t", " ", "+", " ", "1">>),
      Ln(0, <<"s", "a", "y", "(", "c", "o", "u", "n", "t", ")">>)>>

\* forever whose body stops after one statement:
\*   |forever
\*   |  say(1)
\*   |  stop
\*   |  say(2)
\*   |say(3)
ForeverStop ==
    <<Ln(0, <<"f", "o", "r", "e", "v", "e", "r">>),
      Ln(2, <<"s", "a", "y", "(", "1", ")">>),
      Ln(2, <<"s", "t", "o", "p">>),
      Ln(2, <<"s", "a", "y", "(", "2", ")">>),
      Ln(0, <<"s", "a", "y", "(", "3", ")">>)>>

\* repeat until whose body stops before making the condition true:
\*   |keep c to 0
\*   |repeat until c
\*   |  say(1)
\*   |  stop
\*   |  keep c to 1
\*   |say(c)
RepeatStop ==
    <<Ln(0, <<"k", "e", "e", "p", " ", "c", " ", "t", "o", " ", "0">>),
      Ln(0, <<"r", "e", "p", "e", "a", "t", " ", "u", "n", "t", "i", "l", " ", "c">>),
      Ln(2, <<"s", "a", "y", "(", "1", ")">>),
      Ln(2, <<"s", "t", "o", "p">>),
      Ln(2, <<"k", "e", "e", "p", " ", "c", " ", "t", "o", " ", "1">>),
      Ln(0, <<"s", "a", "y", "(", "c", ")">>)>>

\* when 1 / stop / complete inside forever:
\*   |forever
\*   |  say(1)
\*   |  when 1
\*   |    stop
\*   |  complete
\*   |    say(2)
\*   |  say(3)
\*   |say(4)
ForeverWhenStop ==
    <<Ln(0, <<"f", "o", "r", "e", "v", "e", "r">>),
      Ln(2, <<"s", "a", "y", "(", "1", ")">>),
      Ln(2, <<"w", "h", "e", "n", " ", "1">>),
      Ln(4, <<"s", "t", "o", "p">>),
      Ln(2, <<"c", "o", "m", "p", "l", "e", "t", "e">>),
      Ln(4, <<"s", "a", "y", "(", "2", ")">>),
      Ln(2, <<"s", "a", "y", "(", "3", ")">>),
      Ln(0, <<"s", "a", "y", "(", "4", ")">>)>>

\* an unrecognized line at top level:
\*   |keep x to 1
\*   |foo bar
\*   |say(x)
UnknownTop ==
    <<Ln(0, <<"k", "e", "e", "p", " ", "x", " ", "t", "o", " ", "1">>),
      Ln(0, <<"f", "o", "o", " ", "b", "a", "r">>),
      Ln(0, <<"s", "a", "y", "(", "x", ")">>)>>

\* an unrecognized line inside a loop body:
\*   |keep x to 1
\*   |forever
\*   |  say(x)
\*   |  foo bar
\*   |say(x)
UnknownInLoop ==
    <<Ln(0, <<"k", "e", "e", "p", " ", "x", " ", "t", "o", " ", "1">>),
      Ln(0, <<"f", "o", "r", "e", "v", "e", "r">>),
      Ln(2, <<"s", "a", "y", "(", "x", ")">>),
      Ln(2, <<"f", "o", "o", " ", "b", "a", "r">>),
      Ln(0, <<"s", "a", "y", "(", "x", ")">>)>>

\* an unrecognized line inside a conditional arm:
\*   |when 0
\*   |  say(0)
\*   |or 1
\*   |  say(1)
\*   |  foo bar
UnknownInArm ==
    <<Ln(0, <<"w", "h", "e", "n", " ", "0">>),
      Ln(2, <<"s", "a", "y", "(", "0", ")">>),
      Ln(0, <<"o", "r", " ", "1">>),
      Ln(2, <<"s", "a", "y", "(", "1", ")">>),
      Ln(2, <<"f", "o", "o", " ", "b", "a", "r">>)>>

\* an unrecognized first line of a repeat until body:
\*   |repeat until 0
\*   |  or 1
UnknownFirst ==
    <<Ln(0, <<"r", "e", "p", "e", "a", "t", " ", "u", "n", "t", "i", "l", " ", "0">>),
      Ln(2, <<"o", "r", " ", "1">>)>>

\* repeat until without a condition:
\*   |say(1)
\*   |repeat until
\*   |  say(2)
\*   |say(3)
MissingCond ==
    <<Ln(0, <<"s", "a", "y", "(", "1", ")">>),
      Ln(0, <<"r", "e", "p", "e", "a", "t", " ", "u", "n", "t", "i", "l">>),
      Ln(2, <<"s", "a", "y", "(", "2", ")">>),
      Ln(0, <<"s", "a", "y", "(", "3", ")">>)>>

\* repeat until followed by spaces only:
\*   |say(1)
\*   |repeat until   
\*   |  say(2)
\*   |say(3)
MissingCondSpaces ==
    <<Ln(0, <<"s", "a", "y", "(", "1", ")">>),
      Ln(0, <<"r", "e", "p", "e", "a", "t", " ", "u", "n", "t", "i", "l", " ", " ", " ">>),
      Ln(2, <<"s", "a", "y", "(", "2", ")">>),
      Ln(0, <<"s", "a", "y", "(", "3", ")">>)>>

\* a failing print inside a conditional inside a loop:
\*   |keep a to 1
\*   |forever
\*   |  when a
\*   |    say(y)
\*   |  say(2)
\*   |say(3)
ErrInArmInLoop ==
    <<Ln(0, <<"k", "e", "e", "p", " ", "a", " ", "t", "o", " ", "1">>),
      Ln(0, <<"f", "o", "r", "e", "v", "e", "r">>),
      Ln(2, <<"w", "h", "e", "n", " ", "a">>),
      Ln(4, <<"s", "a", "y", "(", "y", ")">>),
      Ln(2, <<"s", "a", "y", "(", "2", ")">>),
      Ln(0, <<"s", "a", "y", "(", "3", ")">>)>>

\* a failing repeat until condition:
\*   |keep a to 1
\*   |repeat until a + ask
\*   |  say(1)
\*   |say(2)
ErrInRepeatCond ==
    <<Ln(0, <<"k", "e", "e", "p", " ", "a", " ", "t", "o", " ", "1">>),
      Ln(0, <<"r", "e", "p", "e", "a", "t", " ", "u", "n", "t", "i", "l", " ", "a", " ", "+", " ", "a", "s", "k">>),
      Ln(2, <<"s", "a", "y", "(", "1", ")">>),
      Ln(0, <<"s", "a", "y", "(", "2", ")">>)>>

\* a failing arm condition inside nested loops:
\*   |forever
\*   |  repeat until 0
\*   |    when 1 < ask
\*   |      stop
\*   |    say(4)
\*   |say(5)
ErrInArmCond ==
    <<Ln(0, <<"f", "o", "r", "e", "v", "e", "r">>),
      Ln(2, <<"r", "e", "p", "e", "a", "t", " ", "u", "n", "t", "i", "l", " ", "0">>),
      Ln(4, <<"w", "h", "e", "n", " ", "1", " ", "<", " ", "a", "s", "k">>),
      Ln(6, <<"s", "t", "o", "p">>),
      Ln(4, <<"s", "a", "y", "(", "4", ")">>),
      Ln(0, <<"s", "a", "y", "(", "5", ")">>)>>

\* a store statement without to, inside a loop:
\*   |keep x to 1
\*   |forever
\*   |  keep x foo 5
\*   |say(x)
BadKeep ==
    <<Ln(0, <<"k", "e", "e", "p", " ", "x", " ", "t", "o", " ", "1">>),
      Ln(0, <<"f", "o", "r", "e", "v", "e", "r">>),
      Ln(2, <<"k", "e", "e", "p", " ", "x", " ", "f", "o", "o", " ", "5">>),
      Ln(0, <<"s", "a", "y", "(", "x", ")">>)>>

\* a store statement whose expression fails:
\*   |keep x to 1
\*   |keep x to y + 1
\*   |say(x)
KeepFails ==
    <<Ln(0, <<"k", "e", "e", "p", " ", "x", " ", "t", "o", " ", "1">>),
      Ln(0, <<"k", "e", "e", "p", " ", "x", " ", "t", "o", " ", "y", " ", "+", " ", "1">>),
      Ln(0, <<"s", "a", "y", "(", "x", ")">>)>>

\* print with an empty expression:
\*   |say(1)
\*   |say( )
\*   |say(2)
SayEmpty ==
    <<Ln(0, <<"s", "a", "y", "(", "1", ")">>),
      Ln(0, <<"s", "a", "y", "(", " ", ")">>),
      Ln(0, <<"s", "a", "y", "(", "2", ")">>)>>

\* print without parentheses, in an arm:
\*   |when 1
\*   |  say 1
\*   |say(2)
SayBad ==
    <<Ln(0, <<"w", "h", "e", "n", " ", "1">>),
      Ln(2, <<"s", "a", "y", " ", "1">>),
      Ln(0, <<"s", "a", "y", "(", "2", ")">>)>>

\* a failing expression that contains a lone =:
\*   |keep x to 1
\*   |say(x = y)
EqReport ==
    <<Ln(0, <<"k", "e", "e", "p", " ", "x", " ", "t", "o", " ", "1">>),
      Ln(0, <<"s", "a", "y", "(", "x", " ", "=", " ", "y", ")">>)>>

\* a failing arm condition that contains a lone =:
\*   |keep x to 2
\*   |when x = 1
\*   |  say(1)
\*   |or x = y
\*   |  say(2)
\*   |complete
\*   |  say(3)
EqReportArm ==
    <<Ln(0, <<"k", "e", "e", "p", " ", "x", " ", "t", "o", " ", "2">>),
      Ln(0, <<"w", "h", "e", "n", " ", "x", " ", "=", " ", "1">>),
      Ln(2, <<"s", "a", "y", "(", "1", ")">>),
      Ln(0, <<"o", "r", " ", "x", " ", "=", " ", "y">>),
      Ln(2, <<"s", "a", "y", "(", "2", ")">>),
      Ln(0, <<"c", "o", "m", "p", "l", "e", "t", "e">>),
      Ln(2, <<"s", "a", "y", "(", "3", ")">>)>>

\* the comparison operators that already contain =:
\*   |keep x to 2
\*   |when x != 2
\*   |  say(1)
\*   |or x <= 1
\*   |  say(2)
\*   |or x >= 2
\*   |  say(x == 2)
\*   |say(x + x)
Ops ==
    <<Ln(0, <<"k", "e", "e", "p", " ", "x", " ", "t", "o", " ", "2">>),
      Ln(0, <<"w", "h", "e", "n", " ", "x", " ", "!", "=", " ", "2">>),
      Ln(2, <<"s", "a", "y", "(", "1", ")">>),
      Ln(0, <<"o", "r", " ", "x", " ", "<", "=", " ", "1">>),
      Ln(2, <<"s", "a", "y", "(", "2", ")">>),
      Ln(0, <<"o", "r", " ", "x", " ", ">", "=", " ", "2">>),
      Ln(2, <<"s", "a", "y", "(", "x", " ", "=", "=", " ", "2", ")">>),
      Ln(0, <<"s", "a", "y", "(", "x", " ", "+", " ", "x", ")">>)>>

\* input read by the store statement:
\*   |keep s to ask
\*   |when s
\*   |  say(s + s)
\*   |complete
\*   |  say(0)
\*   |keep t to s = s
\*   |say(t)
Ask ==
    <<Ln(0, <<"k", "e", "e", "p", " ", "s", " ", "t", "o", " ", "a", "s", "k">>),
      Ln(0, <<"w", "h", "e", "n", " ", "s">>),
      Ln(2, <<"s", "a", "y", "(", "s", " ", "+", " ", "s", ")">>),
      Ln(0, <<"c", "o", "m", "p", "l", "e", "t", "e">>),
      Ln(2, <<"s", "a", "y", "(", "0", ")">>),
      Ln(0, <<"k", "e", "e", "p", " ", "t", " ", "t", "o", " ", "s", " ", "=", " ", "s">>),
      Ln(0, <<"s", "a", "y", "(", "t", ")">>)>>

\* a forever loop that never stops:
\*   |keep n to 0
\*   |forever
\*   |  keep n to n + 1
\*   |say(n)
ForeverNoStop ==
    <<Ln(0, <<"k", "e", "e", "p", " ", "n", " ", "t", "o", " ", "0">>),
      Ln(0, <<"f", "o", "r", "e", "v", "e", "r">>),
      Ln(2, <<"k", "e", "e", "p", " ", "n", " ", "t", "o", " ", "n", " ", "+", " ", "1">>),
      Ln(0, <<"s", "a", "y", "(", "n", ")">>)>>

\* blank and comment lines in a body:
\*   |# counting
\*   |forever
\*   |
\*   |  # note
\*   |  say(1)
\*   |  stop
\*   |say(2)
Blanks ==
    <<Ln(0, <<"#", " ", "c", "o", "u", "n", "t", "i", "n", "g">>),
      Ln(0, <<"f", "o", "r", "e", "v", "e", "r">>),
      Ln(0, <<>>),
      Ln(2, <<"#", " ", "n", "o", "t", "e">>),
      Ln(2, <<"s", "a", "y", "(", "1", ")">>),
      Ln(2, <<"s", "t", "o", "p">>),
      Ln(0, <<"s", "a", "y", "(", "2", ")">>)>>

\* a blank line inside a nested body:
\*   |keep n to 0
\*   |forever
\*   |  repeat until n
\*   |    say(1)
\*   |
\*   |    keep n to 1
\*   |  stop
\*   |say(2)
BlankEndsBlock ==
    <<Ln(0, <<"k", "e", "e", "p", " ", "n", " ", "t", "o", " ", "0">>),
      Ln(0, <<"f", "o", "r", "e", "v", "e", "r">>),
      Ln(2, <<"r", "e", "p", "e", "a", "t", " ", "u", "n", "t", "i", "l", " ", "n">>),
      Ln(4, <<"s", "a", "y", "(", "1", ")">>),
      Ln(0, <<>>),
      Ln(4, <<"k", "e", "e", "p", " ", "n", " ", "t", "o", " ", "1">>),
      Ln(2, <<"s", "t", "o", "p">>),
      Ln(0, <<"s", "a", "y", "(", "2", ")">>)>>

\* constructs with empty bodies:
\*   |when 1
\*   |say(1)
\*   |repeat until 1
\*   |forever
\*   |  when 0
\*   |  complete
\*   |  stop
\*   |say(2)
EmptyBodies ==
    <<Ln(0, <<"w", "h", "e", "n", " ", "1">>),
      Ln(0, <<"s", "a", "y", "(", "1", ")">>),
      Ln(0, <<"r", "e", "p", "e", "a", "t", " ", "u", "n", "t", "i", "l", " ", "1">>),
      Ln(0, <<"f", "o", "r", "e", "v", "e", "r">>),
      Ln(2, <<"w", "h", "e", "n", " ", "0">>),
      Ln(2, <<"c", "o", "m", "p", "l", "e", "t", "e">>),
      Ln(2, <<"s", "t", "o", "p">>),
      Ln(0, <<"s", "a", "y", "(", "2", ")">>)>>

Programs ==
    <<NestedForever, NestedRepeat, StopTop, StopInWhen,
      StopAfterLoop, Arms0, Arms1, Arms2,
      Arms3, CompleteThenOr, NoArm, Count0,
      Count2, Count3, ForeverStop, RepeatStop,
      ForeverWhenStop, UnknownTop, UnknownInLoop, UnknownInArm,
      UnknownFirst, MissingCond, MissingCondSpaces, ErrInArmInLoop,
      ErrInRepeatCond, ErrInArmCond, BadKeep, KeepFails,
      SayEmpty, SayBad, EqReport, EqReportArm,
      Ops, Ask, ForeverNoStop, Blanks,
      BlankEndsBlock, EmptyBodies>>

\* What input() can return.
Inputs == {<<>>, <<"h", "i">>}

(***************************************************************************)
(* State                                                                   *)
(***************************************************************************)
VARIABLES
    prog,       \* which program of Programs is run
    stack,      \* the call stack below execute, innermost frame last
    variables,  \* Interpreter.variables
    out,        \* the lines print() has written
    outcome,    \* "idle", "running", "done", "error", "stop_escaped"
    err,        \* the HPXError that left execute
    trace,      \* history: what was dispatched and evaluated, in order
    exprText,   \* an expression text given to _normalize_equality
    results     \* what _normalize_equality returned for exprText, then for that

texts == <<exprText, results>>

vars == <<prog, stack, variables, out, outcome, err, trace, exprText, results>>

Lines == Programs[prog]

\* A list of lines: the n lines of the program after offset lo.
List(lo, n) == [lo |-> lo, n |-> n]

\* lines[j] for a 0-based j
LineAt(lines, j) == Lines[lines.lo + j + 1]

\* The 1-based number, in the whole program, of lines[j].
SourceLine(lines, j) == lines.lo + j + 1

NoErr == [kind |-> "", text |-> <<>>, line |-> 0, cause |-> ""]

HPXError(kind, text, line, cause) ==
    [kind |-> kind, text |-> text, line |-> line, cause |-> cause]

InvalidExpression(r) == HPXError("Invalid expression", r.text, 0, r.cause)

Frame(fn, lines, i, end) ==
    [fn |-> fn, lo |-> lines.lo, n |-> lines.n, i |-> i, end |-> end,
     cond |-> <<>>, branches |-> <<>>, k |-> 0, body |-> FALSE, id |-> 0]

\* In the trace: 1 for a truthy value, 0 for a falsy one (2: it raised).
Bit(v) == IF Truthy(v) THEN 1 ELSE 0

Event(ev, line, val, id) == [ev |-> ev, line |-> line, val |-> val, id |-> id]

Top == stack[Len(stack)]

Pop(stk) == SubSeq(stk, 1, Len(stk) - 1)

SetTop(stk, f) == Append(Pop(stk), f)

W_keep == <<"k", "e", "e", "p", " ">>
W_say == <<"s", "a", "y">>
W_stop == <<"s", "t", "o", "p">>
W_when == <<"w", "h", "e", "n", " ">>
W_or == <<"o", "r", " ">>
W_complete == <<"c", "o", "m", "p", "l", "e", "t", "e">>
W_repeat == <<"r", "e", "p", "e", "a", "t", " ", "u", "n", "t", "i", "l", " ">>
W_forever == <<"f", "o", "r", "e", "v", "e", "r">>
W_to == <<"t", "o">>
W_ask == <<"a", "s", "k">>

(***************************************************************************)
(* Pure parts of the handlers                                              *)
(***************************************************************************)
\* run_block's classification of a stripped line, in the order of its tests
Classify(line) ==
    IF line = <<>> \/ startswith(line, <<"#">>) THEN "skip"
    ELSE IF startswith(line, W_keep) THEN "keep"
    ELSE IF startswith(line, W_say) THEN "say"
    ELSE IF line = W_stop THEN "stop"
    ELSE IF startswith(line, W_when) THEN "when"
    ELSE IF startswith(line, W_repeat) THEN "repeat until"
    ELSE IF startswith(line, W_forever) THEN "forever"
    ELSE "unknown"

\* len(line) - len(line.lstrip())
Indent(raw) == Len(raw) - Len(lstrip(raw))

\* `if indent < base_indent: break`: lines as indented as the first stay.
collect_block_same_indent(lines, start) ==
    LET base_indent == Indent(LineAt(lines, start))
        RECURSIVE scan(_)
        scan(i) ==
            IF i < lines.n /\ Indent(LineAt(lines, i)) >= base_indent
                THEN scan(i + 1)
                ELSE i
        stop_at == scan(start + 1)
    IN [block |-> List(lines.lo + start + 1, stop_at - (start + 1)),
        end |-> stop_at - 1]

\* collect_block: the block and the index of its last line
collect_block(lines, start) ==
    LET base_indent == Indent(LineAt(lines, start))
        RECURSIVE scan(_)
        scan(i) ==
            IF i < lines.n /\ Indent(LineAt(lines, i)) > base_indent
                THEN scan(i + 1)
                ELSE i
        stop_at == scan(start + 1)
    IN [block |-> List(lines.lo + start + 1, stop_at - (start + 1)),
        end |-> stop_at - 1]

IsArmLine(line) ==
    startswith(line, W_when) \/ startswith(line, W_or)
        \/ startswith(line, W_complete)

\* `condition = None` for every line that is not a when line.
BranchOrIsComplete(lines, i) ==
    LET line == strip(LineAt(lines, i)) IN
    [none |-> ~startswith(line, W_when),
     cond |-> IF startswith(line, W_when) THEN strip(From(line, 5))
              ELSE IF startswith(line, W_or) THEN strip(From(line, 3))
              ELSE <<>>,
     block |-> collect_block(lines, i).block,
     at |-> i]

\* The (condition, block) pair of the arm that starts at lines[i].
Branch(lines, i) ==
    LET line == strip(LineAt(lines, i)) IN
    [none |-> ~startswith(line, W_when) /\ ~startswith(line, W_or),
     cond |-> IF startswith(line, W_when) THEN strip(From(line, 5))
              ELSE IF startswith(line, W_or) THEN strip(From(line, 3))
              ELSE <<>>,
     block |-> collect_block(lines, i).block,
     at |-> i]

\* handle_when, first loop: the branches and the final value of i
RECURSIVE CollectBranches(_, _, _)
CollectBranches(lines, i, branches) ==
    IF i >= lines.n THEN [branches |-> branches, i |-> i]
    ELSE IF ~IsArmLine(strip(LineAt(lines, i)))
        THEN [branches |-> branches, i |-> i]
    ELSE LET more == Append(branches, Branch(lines, i))
             next == collect_block(lines, i).end + 1
         IN IF next >= lines.n THEN [branches |-> more, i |-> next]
            ELSE IF startswith(strip(LineAt(lines, next)), W_or)
                    \/ startswith(strip(LineAt(lines, next)), W_complete)
                THEN CollectBranches(lines, next, more)
            ELSE [branches |-> more, i |-> next]

\* The name is bound (to None) before the expression is evaluated.
handle_keep_binds_first(line, bindings, input) ==
    LET parts == split(line, 3) IN
    IF Len(parts) < 4 \/ parts[3] # W_to
        THEN [raised |-> TRUE,
              err |-> HPXError("Invalid keep statement", line, 0, ""),
              variables |-> bindings]
    ELSE LET name == parts[2]
             expr == strip(parts[4])
             r == IF expr = W_ask THEN Ok(StrV(input))
                  ELSE evaluate(expr, bindings)
         IN [raised |-> ~r.ok,
             err |-> IF r.ok THEN NoErr ELSE InvalidExpression(r),
             variables |-> [v \in DOMAIN bindings \cup {name} |->
                               IF v = name THEN r.val ELSE bindings[v]]]

\* `self.variables = {name: value}` in place of the item assignment.
handle_keep_rebinding(line, bindings, input) ==
    LET parts == split(line, 3) IN
    IF Len(parts) < 4 \/ parts[3] # W_to
        THEN [raised |-> TRUE,
              err |-> HPXError("Invalid keep statement", line, 0, ""),
              variables |-> bindings]
    ELSE LET name == parts[2]
             expr == strip(parts[4])
             r == IF expr = W_ask THEN Ok(StrV(input))
                  ELSE evaluate(expr, bindings)
         IN IF ~r.ok
                THEN [raised |-> TRUE, err |-> InvalidExpression(r),
                      variables |-> bindings]
            ELSE [raised |-> FALSE, err |-> NoErr,
                  variables |-> [v \in {name} |-> r.val]]

\* handle_keep: the error raised, or the new bindings
handle_keep(line, bindings, input) ==
    LET parts == split(line, 3) IN
    IF Len(parts) < 4 \/ parts[3] # W_to
        THEN [raised |-> TRUE,
              err |-> HPXError("Invalid keep statement", line, 0, ""),
              variables |-> bindings]
    ELSE LET name == parts[2]
             expr == strip(parts[4])
             r == IF expr = W_ask THEN Ok(StrV(input))
                  ELSE evaluate(expr, bindings)
         IN IF ~r.ok
                THEN [raised |-> TRUE, err |-> InvalidExpression(r),
                      variables |-> bindings]
            ELSE [raised |-> FALSE, err |-> NoErr,
                  variables |-> [v \in DOMAIN bindings \cup {name} |->
                                    IF v = name THEN r.val ELSE bindings[v]]]

\* handle_say: the error raised, or the lines written
handle_say(line, bindings) ==
    IF ~startswith(line, <<"s", "a", "y", "(">>) \/ ~endswith(line, <<")">>)
        THEN [raised |-> TRUE,
              err |-> HPXError("Invalid say statement", line, 0, ""),
              written |-> <<>>]
    ELSE LET inner == strip(SubSeq(line, 5, Len(line) - 1)) IN
         IF inner = <<>>
            THEN [raised |-> TRUE,
                  err |-> HPXError("say() requires an expression", <<>>, 0, ""),
                  written |-> <<>>]
         ELSE LET r == evaluate(inner, bindings) IN
              IF ~r.ok
                THEN [raised |-> TRUE, err |-> InvalidExpression(r),
                      written |-> <<>>]
              ELSE [raised |-> FALSE, err |-> NoErr,
                    written |-> <<Render(r.val)>>]

(***************************************************************************)
(* Exceptions                                                              *)
(***************************************************************************)
\* handle_forever without its try/except.
CatchesInRepeatOnly(f, exc) ==
    /\ f.fn = "handle_repeat_until"
    /\ f.body
    /\ exc = "StopLoop"

\* A bare `except:` around the body.
CatchesAnything(f, exc) ==
    /\ f.fn \in {"handle_repeat_until", "handle_forever"}
    /\ f.body

\* The try/except of a frame: only the two loop handlers have one, around
\* the run_block call of the body, and it names StopLoop only.
Catches(f, exc) ==
    /\ f.fn \in {"handle_repeat_until", "handle_forever"}
    /\ f.body
    /\ exc = "StopLoop"

\* The outermost catching frame instead of the innermost.
OutermostHandler(stk, exc) ==
    LET js == {j \in 1..Len(stk) : Catches(stk[j], exc)}
    IN IF js = {} THEN 0 ELSE CHOOSE j \in js : \A h \in js : h >= j

\* The innermost frame of stk that catches exc, 0 when none does.
Handler(stk, exc) ==
    LET js == {j \in 1..Len(stk) : Catches(stk[j], exc)}
    IN IF js = {} THEN 0 ELSE CHOOSE j \in js : \A h \in js : h <= j

\* The calling run_block without its `i += 1`.
ResumeSameLine(stk, returned) == SetTop(stk, [stk[Len(stk)] EXCEPT !.i = returned])

\* `i = self.handle_x(lines, i)` then `i += 1` in the calling run_block,
\* which is the top of stk
Resume(stk, returned) == SetTop(stk, [stk[Len(stk)] EXCEPT !.i = returned + 1])

\* `continue` in place of `break`: the catching loop goes round again.
UnwindContinue(stk, exc) ==
    LET j == Handler(stk, exc)
    IN IF j = 0 THEN <<>>
       ELSE Append(SubSeq(stk, 1, j - 1), [stk[j] EXCEPT !.body = FALSE])

\* The stack after exc is raised below stk: the catching loop breaks and
\* returns end to its caller; an exception nothing catches leaves execute.
Unwind(stk, exc) ==
    LET j == Handler(stk, exc)
    IN IF j = 0 THEN <<>> ELSE Resume(SubSeq(stk, 1, j - 1), stk[j].end)

\* How execute ends when exc leaves it: __main__ catches HPXError only.
Escaped(exc) == IF exc = "HPXError" THEN "error" ELSE "stop_escaped"

Raise(exc, e) ==
    /\ stack' = Unwind(stack, exc)
    /\ IF Handler(stack, exc) = 0
        THEN outcome' = Escaped(exc) /\ err' = e
        ELSE UNCHANGED <<outcome, err>>

(***************************************************************************)
(* Actions                                                                 *)
(***************************************************************************)
Init ==
    /\ prog \in 1..Len(Programs)
    /\ stack = <<>>
    /\ variables = <<>>
    /\ out = <<>>
    /\ outcome = "idle"
    /\ err = NoErr
    /\ trace = <<>>
    /\ exprText = <<>>
    /\ results = <<>>

\* execute(lines): run_block(lines, 0, len(lines))
Execute ==
    /\ outcome = "idle"
    /\ outcome' = "running"
    /\ stack' = <<Frame("run_block", List(0, Len(Lines)), 0, Len(Lines))>>
    /\ UNCHANGED <<prog, texts, variables, out, err, trace>>

Running == outcome = "running" /\ stack # <<>> /\ Len(trace) < MaxSteps

\* The top frame is a run_block whose loop is at a line.
InRunBlock == Running /\ Top.fn = "run_block" /\ Top.i < Top.end

TopLines == List(Top.lo, Top.n)

\* line = raw.strip() of the line run_block is at
CurLine == strip(LineAt(TopLines, Top.i))

CurSource == SourceLine(TopLines, Top.i)

At(kind) == InRunBlock /\ Classify(CurLine) = kind

Log(ev, val) == trace' = Append(trace, Event(ev, CurSource, val, 0))

\* a blank line or a comment
Skip ==
    /\ At("skip")
    /\ stack' = SetTop(stack, [Top EXCEPT !.i = Top.i + 1])
    /\ Log("skip", 0)
    /\ UNCHANGED <<prog, texts, variables, out, outcome, err>>

Keep ==
    /\ At("keep")
    /\ \E input \in Inputs :
        LET r == handle_keep(CurLine, variables, input) IN
        IF r.raised
            THEN /\ Raise("HPXError", r.err)
                 /\ variables' = r.variables
                 /\ Log("keep", 0)
                 /\ UNCHANGED <<prog, texts, out>>
            ELSE /\ variables' = r.variables
                 /\ stack' = SetTop(stack, [Top EXCEPT !.i = Top.i + 1])
                 /\ Log("keep", 1)
                 /\ UNCHANGED <<prog, texts, out, outcome, err>>

Say ==
    /\ At("say")
    /\ LET r == handle_say(CurLine, variables) IN
        IF r.raised
            THEN /\ Raise("HPXError", r.err)
                 /\ Log("say", 0)
                 /\ UNCHANGED <<prog, texts, variables, out>>
            ELSE /\ out' = out \o r.written
                 /\ stack' = SetTop(stack, [Top EXCEPT !.i = Top.i + 1])
                 /\ Log("say", 1)
                 /\ UNCHANGED <<prog, texts, variables, outcome, err>>

IsLoop(f) == f.fn \in {"handle_repeat_until", "handle_forever"}

\* The innermost loop handler on stk, 0 when there is none.
EnclosingLoop(stk) ==
    LET js == {j \in 1..Len(stk) : IsLoop(stk[j])}
    IN IF js = {} THEN 0 ELSE CHOOSE j \in js : \A h \in js : h <= j

\* raise StopLoop()
Stop ==
    /\ At("stop")
    /\ Raise("StopLoop", NoErr)
    /\ trace' = Append(trace, Event("stop", CurSource, 0,
                    IF EnclosingLoop(stack) = 0 THEN 0
                    ELSE stack[EnclosingLoop(stack)].id))
    /\ UNCHANGED <<prog, texts, variables, out>>

Unknown ==
    /\ At("unknown")
    /\ Raise("HPXError", HPXError("Unknown instruction", CurLine, Top.i + 1, ""))
    /\ Log("unknown", 0)
    /\ UNCHANGED <<prog, texts, variables, out>>

\* handle_when up to its second loop: the branches are collected
When ==
    /\ At("when")
    /\ LET c == CollectBranches(TopLines, Top.i, <<>>) IN
        stack' = Append(stack,
            [Frame("handle_when", TopLines, c.i, 0)
                EXCEPT !.branches = c.branches, !.k = 1,
                       !.id = Len(trace) + 1])
    /\ Log("when", 0)
    /\ UNCHANGED <<prog, texts, variables, out, outcome, err>>

\* The source line of the loop statement whose handler is the top frame:
\* its block starts on the line after it.
LoopSource == Top.lo

InWhen == Running /\ Top.fn = "handle_when"

\* Without the break the loop goes on to the next branch.
AfterBodyNoBreak(f) == f.k + 1

\* The loop index of `for condition, block in branches` after the body of
\* branch k has run: the break leaves the loop.
AfterBody(f) == Len(f.branches) + 1

\* handle_when, one round of `for condition, block in branches`
WhenBranch ==
    /\ InWhen /\ Top.k <= Len(Top.branches)
    /\ LET b == Top.branches[Top.k]
           src == SourceLine(TopLines, b.at)
           r == evaluate(b.cond, variables)
           run == Frame("run_block", b.block, 0, b.block.n)
       IN IF b.none
            THEN /\ stack' = Append(stack, run)
                 /\ trace' = Append(trace, Event("arm", src, 0, Top.id))
                 /\ UNCHANGED <<outcome, err>>
          ELSE IF ~r.ok
            THEN /\ Raise("HPXError", InvalidExpression(r))
                 /\ trace' = Append(trace, Event("cond", src, 2, Top.id))
          ELSE IF Truthy(r.val)
            THEN /\ stack' = Append(stack, run)
                 /\ trace' = trace \o <<Event("cond", src, 1, Top.id),
                                        Event("arm", src, 0, Top.id)>>
                 /\ UNCHANGED <<outcome, err>>
          ELSE /\ stack' = SetTop(stack, [Top EXCEPT !.k = Top.k + 1])
               /\ trace' = Append(trace, Event("cond", src, 0, Top.id))
               /\ UNCHANGED <<outcome, err>>
    /\ UNCHANGED <<prog, texts, variables, out>>

\* `return i`
WhenResultNextLine(f) == f.i

\* `return i - 1`: i is the line after the last body the first loop took
WhenResult(f) == f.i - 1

\* handle_when: return i - 1
WhenReturn ==
    /\ InWhen /\ Top.k > Len(Top.branches)
    /\ stack' = Resume(Pop(stack), WhenResult(Top))
    /\ UNCHANGED <<prog, texts, variables, out, outcome, err, trace>>

\* `while self.evaluate(condition)`
GoesOnWithoutNot(v) == Truthy(v)

\* `while not self.evaluate(condition)`: the loop goes round on v
GoesOn(v) == ~Truthy(v)

\* handle_repeat_until up to its loop
RepeatUntil ==
    /\ At("repeat until")
    /\ LET condition == strip(From(CurLine, 13))
           c == collect_block(TopLines, Top.i)
       IN IF condition = <<>>
            THEN Raise("HPXError",
                    HPXError("repeat until requires a condition", <<>>, 0, ""))
            ELSE /\ stack' = Append(stack,
                        [Frame("handle_repeat_until", c.block, Top.i, c.end)
                            EXCEPT !.cond = condition, !.id = Len(trace) + 1])
                 /\ UNCHANGED <<outcome, err>>
    /\ Log("repeat until", 0)
    /\ UNCHANGED <<prog, texts, variables, out>>

\* handle_repeat_until: `while not self.evaluate(condition)`
RepeatCheck ==
    /\ Running /\ Top.fn = "handle_repeat_until"
    /\ LET r == evaluate(Top.cond, variables)
       IN IF ~r.ok
            THEN /\ Raise("HPXError", InvalidExpression(r))
                 /\ trace' = Append(trace, Event("check", LoopSource, 2, Top.id))
          ELSE IF ~GoesOn(r.val)
            THEN /\ stack' = Resume(Pop(stack), Top.end)
                 /\ trace' = Append(trace,
                        Event("check", LoopSource, Bit(r.val), Top.id))
                 /\ UNCHANGED <<outcome, err>>
          ELSE /\ stack' = Append(SetTop(stack, [Top EXCEPT !.body = TRUE]),
                                  Frame("run_block", TopLines, 0, Top.n))
               /\ trace' = trace \o
                        <<Event("check", LoopSource, Bit(r.val), Top.id),
                          Event("iter", LoopSource, 0, Top.id)>>
               /\ UNCHANGED <<outcome, err>>
    /\ UNCHANGED <<prog, texts, variables, out>>

\* handle_forever up to its loop
Forever ==
    /\ At("forever")
    /\ LET c == collect_block(TopLines, Top.i) IN
        stack' = Append(stack,
            [Frame("handle_forever", c.block, Top.i, c.end)
                EXCEPT !.id = Len(trace) + 1])
    /\ Log("forever", 0)
    /\ UNCHANGED <<prog, texts, variables, out, outcome, err>>

\* handle_forever: `while True`, the body is dispatched
ForeverBody ==
    /\ Running /\ Top.fn = "handle_forever"
    /\ stack' = Append(SetTop(stack, [Top EXCEPT !.body = TRUE]),
                       Frame("run_block", TopLines, 0, Top.n))
    /\ trace' = Append(trace, Event("iter", LoopSource, 0, Top.id))
    /\ UNCHANGED <<prog, texts, variables, out, outcome, err>>

\* run_block: `while i < end` is false, the call returns
RunBlockReturn ==
    /\ Running /\ Top.fn = "run_block" /\ Top.i >= Top.end
    /\ LET rest == Pop(stack) IN
        IF rest = <<>>
            THEN stack' = <<>> /\ outcome' = "done"
        ELSE LET caller == rest[Len(rest)] IN
            /\ outcome' = outcome
            /\ stack' = IF caller.fn = "handle_when"
                            THEN SetTop(rest, [caller EXCEPT !.k = AfterBody(caller)])
                            ELSE SetTop(rest, [caller EXCEPT !.body = FALSE])
    /\ UNCHANGED <<prog, texts, variables, out, err, trace>>

Next ==
    \/ Execute
    \/ Skip
    \/ Keep
    \/ Say
    \/ Stop
    \/ Unknown
    \/ When
    \/ WhenBranch
    \/ WhenReturn
    \/ RepeatUntil
    \/ RepeatCheck
    \/ Forever
    \/ ForeverBody
    \/ RunBlockReturn

Spec == Init /\ [][Next]_vars

\* execute has returned or raised, or the step bound is reached: the
\* states in which no action is enabled.
Terminal == outcome \notin {"idle", "running"} \/ Len(trace) >= MaxSteps

\* The interpreter is one thread that runs until execute returns or
\* raises: a step that can be taken is taken.  This is weak fairness of
\* Next, WF_vars(Next), with ENABLED <<Next>>_vars written as ~Terminal and
\* <<Next>>_vars as a step that changes vars.
FairSpec == Spec /\ ([]<>Terminal \/ []<><<TRUE>>_vars)

(***************************************************************************)
(* _normalize_equality on its own: every text up to MaxExprLen over the    *)
(* characters the pattern tells apart, normalized once and once more.      *)
(***************************************************************************)
ExprChars == {"=", "!", "<", ">", "x"}

Texts == UNION {[1..n -> ExprChars] : n \in 0..MaxExprLen}

InitNormalize ==
    /\ prog = 1
    /\ stack = <<>>
    /\ variables = <<>>
    /\ out = <<>>
    /\ outcome = "idle"
    /\ err = NoErr
    /\ trace = <<>>
    /\ exprText \in Texts
    /\ results = <<>>

\* self._normalize_equality(expr)
Normalize ==
    /\ results = <<>>
    /\ results' = <<_normalize_equality(exprText)>>
    /\ UNCHANGED <<prog, stack, variables, out, outcome, err, trace, exprText>>

\* the result given to _normalize_equality again
NormalizeAgain ==
    /\ Len(results) = 1
    /\ results' = Append(results, _normalize_equality(results[1]))
    /\ UNCHANGED <<prog, stack, variables, out, outcome, err, trace, exprText>>

NextNormalize == Normalize \/ NormalizeAgain

SpecNormalize == InitNormalize /\ [][NextNormalize]_vars

(***************************************************************************)
(* Properties                                                              *)
(***************************************************************************)
Last == trace[Len(trace)]

DispatchEvents ==
    {"skip", "keep", "say", "stop", "when", "repeat until", "forever", "unknown"}

\* The events of the construct whose dispatch is trace[p], in order.
EventsOf(p, kinds) == SelectSeq(trace, LAMBDA e : e.id = p /\ e.ev \in kinds)

Count(kind, line) ==
    Cardinality({q \in 1..Len(trace) : trace[q].ev = kind /\ trace[q].line = line})

\* The source line of the last body line of the construct at source line l
\* (l itself when the body is empty).
BodyEnd(l) == collect_block(List(0, Len(Lines)), l - 1).end + 1

\* An event that records a raised HPXError.
Raised(e) ==
    \/ e.ev \in {"keep", "say"} /\ e.val = 0
    \/ e.ev = "unknown"
    \/ e.ev \in {"cond", "check"} /\ e.val = 2

\* C1: a stop executed under a loop ends the nearest enclosing loop handler
\* and nothing else: every frame above that loop (the conditionals between)
\* is left, every frame below the loop's caller is untouched, and the
\* run_block that called the loop goes on at the statement after the loop's
\* body.
C1_StopEndsNearestLoop ==
    [][(At("stop") /\ EnclosingLoop(stack) > 0) =>
        LET j == EnclosingLoop(stack) IN
        /\ Len(stack') = j - 1
        /\ \A h \in 1..(j - 2) : stack'[h] = stack[h]
        /\ stack'[j - 1] =
                [stack[j - 1] EXCEPT !.i = stack[j - 1].i + stack[j].n + 1]]_vars

\* A stop, first statement of a conditional arm, has just ended an inner
\* loop while an outer loop is still running its body.
C1_Witness ==
    /\ Len(trace) >= 2
    /\ Last.ev = "stop" /\ Last.id > 0
    /\ trace[Len(trace) - 1].ev = "arm"
    /\ outcome = "running"
    /\ \E j \in 1..Len(stack) : IsLoop(stack[j]) /\ stack[j].body

\* C2: the stop signal never leaves execute.
C2_StopNeverLeavesExecute == outcome # "stop_escaped"

\* The shape of the events of one visit to a conditional whose branches
\* are B: the conditions of branches 1..m, each falsy, then nothing, or the
\* failing condition of branch m+1, or the truthy condition and the body of
\* branch m+1, or the body of the complete branch m+1.
ArmsInOrder(B, es, lines, id) ==
    \E m \in 0..Len(B) :
        /\ Len(es) >= m
        /\ \A h \in 1..m :
            /\ ~B[h].none
            /\ es[h] = Event("cond", SourceLine(lines, B[h].at), 0, id)
        /\ \/ Len(es) = m
           \/ /\ m < Len(B)
              /\ LET src == SourceLine(lines, B[m + 1].at)
                     rest == SubSeq(es, m + 1, Len(es))
                 IN IF B[m + 1].none
                        THEN rest = <<Event("arm", src, 0, id)>>
                        ELSE \/ rest = <<Event("cond", src, 2, id)>>
                             \/ rest = <<Event("cond", src, 1, id),
                                         Event("arm", src, 0, id)>>

\* C3: on each visit to a conditional the conditions are evaluated in
\* declaration order, the body dispatched is that of the first arm that is
\* truthy or complete, at most one body is dispatched, and no condition
\* declared after the selected arm is evaluated.
C3_FirstMatchingArmOnly ==
    \A j \in 1..Len(stack) :
        stack[j].fn = "handle_when" =>
            ArmsInOrder(stack[j].branches,
                        EventsOf(stack[j].id, {"cond", "arm"}),
                        List(stack[j].lo, stack[j].n), stack[j].id)

\* The body of the second arm of a conditional with at least three arms
\* has been dispatched and has returned.
C3_Witness ==
    /\ stack # <<>>
    /\ Top.fn = "handle_when"
    /\ Len(Top.branches) >= 3
    /\ Top.k > Len(Top.branches)
    /\ \E e \in {trace[q] : q \in 1..Len(trace)} :
        /\ e.ev = "arm" /\ e.id = Top.id
        /\ e.line = SourceLine(TopLines, Top.branches[2].at)

\* C4: a repeat until loop evaluates its condition before every iteration,
\* dispatches its body once after each falsy evaluation and not after the
\* truthy one, which is the last; from count = 0, `repeat until count = 3`
\* with a body that adds 1 to count runs the body exactly 3 times.
C4_RepeatUntilChecksFirst ==
    /\ \A p \in 1..Len(trace) :
        trace[p].ev = "repeat until" =>
            LET es == EventsOf(p, {"check", "iter"}) IN
            \A q \in 1..Len(es) :
                /\ es[q].ev = "iter" =>
                    q > 1 /\ es[q - 1].ev = "check" /\ es[q - 1].val = 0
                /\ es[q].ev = "check" =>
                    /\ q > 1 => es[q - 1].ev = "iter"
                    /\ es[q].val = 0 => q < Len(es) /\ es[q + 1].ev = "iter"
                    /\ es[q].val # 0 => q = Len(es)
    /\ (Lines = Count0 /\ outcome = "done") =>
        /\ Count("keep", 3) = 3
        /\ Count("iter", 2) = 3
        /\ Count("check", 2) = 4

\* The counting loop has ended after its third iteration.
C4_Witness ==
    /\ Lines = Count0
    /\ outcome = "done"
    /\ Count("iter", 2) = 3
    /\ out = <<<<"3">>>>

\* C5: a stop executed in a loop body ends the loop at once and without
\* error: the loop's condition is not evaluated again and no iteration
\* starts, nothing of the body is dispatched next, and dispatch is at the
\* first line after the loop's body.
C5_StopLeavesLoopAtOnce ==
    \A q \in 1..Len(trace) :
        (trace[q].ev = "stop" /\ trace[q].id > 0) =>
            LET loop == trace[trace[q].id].line IN
            /\ \A r \in (q + 1)..Len(trace) : trace[r].id # trace[q].id
            /\ q < Len(trace) => trace[q + 1].line \notin loop..BodyEnd(loop)
            /\ q = Len(trace) =>
                /\ outcome = "running" /\ err = NoErr
                /\ stack # <<>> /\ Top.fn = "run_block"
                /\ SourceLine(TopLines, Top.i) = BodyEnd(loop) + 1

\* A stop that is not the last line of its loop's body has just been
\* executed.
C5_Witness ==
    /\ trace # <<>>
    /\ Last.ev = "stop" /\ Last.id > 0
    /\ Last.line < BodyEnd(trace[Last.id].line)
    /\ out # <<>>

\* C6: an Unknown instruction error reports the 1-based number of the line
\* in the whole program.
C6_UnknownReportsSourceLine ==
    err.kind = "Unknown instruction" => err.line = Last.line

\* C7: a `repeat until` line without condition text fails with "repeat
\* until requires a condition".
C7_MissingConditionReported ==
    (trace # <<>> /\ Last.ev \in DispatchEvents
        /\ strip(Lines[Last.line]) = strip(W_repeat)) =>
            /\ outcome = "error"
            /\ err.kind = "repeat until requires a condition"

\* C8: an error raised anywhere is the last thing that happens: nothing is
\* dispatched or evaluated after it, the raising step writes no output and
\* changes no binding, and execute ends with the error.
C8_ErrorsAbort ==
    /\ [](\A q \in 1..Len(trace) :
            Raised(trace[q]) =>
                /\ q = Len(trace)
                /\ outcome = "error" /\ err.kind # ""
                /\ stack = <<>>)
    /\ [][(trace' # trace /\ Raised(trace'[Len(trace')])) =>
            (variables' = variables /\ out' = out)]_vars
    /\ [][outcome = "error" => outcome' = "error"]_vars

\* A print inside a conditional arm inside a loop has failed and execute
\* has ended with its error.
C8_Witness ==
    /\ outcome = "error"
    /\ Len(trace) >= 2
    /\ Last.ev = "say"
    /\ trace[Len(trace) - 1].ev = "arm"
    /\ \E q \in 1..Len(trace) : trace[q].ev = "iter"

\* C9: only the store statement changes the Environment, it changes the
\* binding of its own name only, and no binding is ever deleted.
C9_OnlyKeepChangesBindings ==
    [][/\ DOMAIN variables \subseteq DOMAIN variables'
       /\ variables' # variables =>
            /\ At("keep")
            /\ \A v \in DOMAIN variables :
                v # split(CurLine, 3)[2] => variables'[v] = variables[v]]_vars

\* A run with a print, arm conditions, loop checks, block resolution and a
\* stop has ended with more than one binding.
C9_Witness ==
    /\ outcome = "done"
    /\ Cardinality(DOMAIN variables) >= 2
    /\ \A kind \in {"say", "cond", "check", "stop", "repeat until", "when"} :
        \E q \in 1..Len(trace) : trace[q].ev = kind

\* The expression text of a stripped statement line, as the handlers cut
\* it out.
ExprOf(line) ==
    IF startswith(line, W_keep) THEN strip(split(line, 3)[4])
    ELSE IF startswith(line, W_say) THEN strip(SubSeq(line, 5, Len(line) - 1))
    ELSE IF startswith(line, W_when) THEN strip(From(line, 5))
    ELSE IF startswith(line, W_or) THEN strip(From(line, 3))
    ELSE strip(From(line, 13))

\* C10: an Invalid expression error carries the expression text as it was
\* before equality normalization.
C10_ErrorCarriesOriginalText ==
    err.kind = "Invalid expression" => err.text = ExprOf(strip(Lines[Last.line]))

Special == {"!", "<", ">", "="}

EqPos(e) == {p \in 1..Len(e) : e[p] = "="}

\* The "=" of e with neither neighbour among ! < > =
Lone(e) ==
    {p \in EqPos(e) : /\ p = 1 \/ e[p - 1] \notin Special
                      /\ p = Len(e) \/ e[p + 1] \notin Special}

\* The "=" of e that belong to a token !=, <=, >= or ==
InToken(e) ==
    {p \in EqPos(e) : \/ p > 1 /\ e[p - 1] \in Special
                      \/ p < Len(e) /\ e[p + 1] = "="}

\* e with the "=" at each position of M written twice
Doubled(e, M) ==
    LET RECURSIVE go(_)
        go(p) ==
            IF p > Len(e) THEN <<>>
            ELSE IF p \in M THEN <<"=", "=">> \o go(p + 1)
            ELSE <<e[p]>> \o go(p + 1)
    IN go(1)

\* C11: normalization doubles some "=" of the text and changes nothing
\* else; every lone "=" is among them, each on its own, and no "=" of a
\* !=, <=, >= or == token is; normalizing the result again changes nothing.
C11_NormalizeLoneEquals ==
    /\ Len(results) >= 1 =>
        \E M \in SUBSET EqPos(exprText) :
            /\ results[1] = Doubled(exprText, M)
            /\ Lone(exprText) \subseteq M
            /\ M \cap InToken(exprText) = {}
    /\ Len(results) = 2 => results[2] = results[1]

\* A text with a lone "=" and a token was normalized twice, and two of
\* its "=" were doubled.
C11_Witness ==
    /\ Len(results) = 2
    /\ Lone(exprText) # {}
    /\ InToken(exprText) # {}
    /\ Len(results[1]) >= Len(exprText) + 2

\* The index of the last line of the conditional at lines[i]: the last body
\* line of its last arm, arms being taken while the line after a body
\* starts an or or complete arm.
RECURSIVE LastArmLine(_, _)
LastArmLine(lines, i) ==
    LET e == collect_block(lines, i).end IN
    IF e + 1 < lines.n
        /\ (startswith(strip(LineAt(lines, e + 1)), W_or)
            \/ startswith(strip(LineAt(lines, e + 1)), W_complete))
        THEN LastArmLine(lines, e + 1)
        ELSE e

\* The index of the last line that the statement at lines[i] owns.
LastOwned(lines, i) ==
    LET kind == Classify(strip(LineAt(lines, i))) IN
    IF kind = "when" THEN LastArmLine(lines, i)
    ELSE IF kind \in {"repeat until", "forever"} THEN collect_block(lines, i).end
    ELSE i

\* C12: a dispatch pass moves forward only, and only from a line to the
\* line after the last line that line owns: one line on after a store, a
\* print, a blank or a comment, to the line after the last consumed body
\* line after a conditional or a loop; it never moves off a stop or an
\* unrecognized line.
C12_SinglePass ==
    [][\A j \in 1..Len(stack) :
        (/\ j <= Len(stack')
         /\ stack[j].fn = "run_block"
         /\ stack'[j].fn = "run_block"
         /\ stack'[j] # stack[j]) =>
            /\ stack'[j] = [stack[j] EXCEPT !.i = stack'[j].i]
            /\ stack[j].i < stack[j].end
            /\ Classify(strip(LineAt(List(stack[j].lo, stack[j].n), stack[j].i)))
                    \notin {"stop", "unknown"}
            /\ stack'[j].i =
                    LastOwned(List(stack[j].lo, stack[j].n), stack[j].i) + 1]_vars

\* The top-level pass stands at the line after a four-arm conditional
\* whose second arm was the one dispatched.
C12_Witness ==
    /\ Lines = Arms2
    /\ Len(stack) = 1
    /\ Top.i = 9
    /\ Last.ev = "say" /\ Last.line = 5

\* The number of leading white space characters of a raw line.
LeadingWhitespace(raw) ==
    CHOOSE k \in 0..Len(raw) :
        /\ \A p \in 1..k : raw[p] \in Whitespace
        /\ k = Len(raw) \/ raw[k + 1] \notin Whitespace

\* C13: for the line list of every frame and every start index in it, the
\* block resolver returns the longest run of lines right after start whose
\* leading white space count is greater than that of lines[start], whatever
\* the lines are, and the index of the last of them, start when there is
\* none.
C13_BlockIsMaximalRun ==
    \A j \in 1..Len(stack) :
        \A start \in 0..(stack[j].n - 1) :
            LET lines == List(stack[j].lo, stack[j].n)
                r == collect_block(lines, start)
                base == LeadingWhitespace(LineAt(lines, start))
            IN /\ r.end \in start..(lines.n - 1)
               /\ \A h \in (start + 1)..r.end :
                    LeadingWhitespace(LineAt(lines, h)) > base
               /\ r.end + 1 < lines.n =>
                    LeadingWhitespace(LineAt(lines, r.end + 1)) <= base
               /\ r.block = List(lines.lo + start + 1, r.end - start)

\* A forever loop runs a body of four lines that starts with a blank line
\* and a comment.
C13_Witness ==
    /\ Lines = Blanks
    /\ \E j \in 1..Len(stack) :
        /\ stack[j].fn = "handle_forever"
        /\ stack[j].n = 4
        /\ strip(LineAt(List(stack[j].lo, stack[j].n), 0)) = <<>>
        /\ stack[j].body

\* No arm of the conditional of frame f is a complete arm and, with the
\* bindings as they are, every arm condition evaluates to a falsy value.
NothingMatches(f) ==
    \A h \in 1..Len(f.branches) :
        LET line == strip(LineAt(List(f.lo, f.n), f.branches[h].at)) IN
        /\ startswith(line, W_when) \/ startswith(line, W_or)
        /\ evaluate(ExprOf(line), variables).ok
        /\ ~Truthy(evaluate(ExprOf(line), variables).val)

\* C14: while a conditional with no truthy arm and no complete arm is
\* visited, no body is dispatched, bindings and output stay as they are
\* and no error is raised; when the visit ends, dispatch is at the line
\* after the last arm's body.
C14_NoMatchFallsThrough ==
    [][(InWhen /\ NothingMatches(Top)) =>
        /\ variables' = variables /\ out' = out
        /\ outcome' = "running" /\ err' = NoErr
        /\ Len(stack') <= Len(stack)
        /\ \A q \in (Len(trace) + 1)..Len(trace') : trace'[q].ev = "cond"
        /\ Len(stack') < Len(stack) =>
            LET last == Top.branches[Len(Top.branches)] IN
            stack' = SetTop(Pop(stack),
                        [stack[Len(stack) - 1]
                            EXCEPT !.i = last.at + last.block.n + 1])]_vars

\* The visit of a conditional with two arms, both evaluated and falsy, is
\* over and dispatch has gone on after it.
C14_Witness ==
    /\ Lines = NoArm
    /\ outcome = "done"
    /\ Count("cond", 2) = 1 /\ Count("cond", 4) = 1
    /\ out = <<<<"3">>>>

\* The body of the loop of frame f has a stop line, at any depth.
HasStopLine(f) ==
    \E h \in 0..(f.n - 1) : strip(LineAt(List(f.lo, f.n), h)) = W_stop

ForeverFrames == {j \in 1..Len(stack) : stack[j].fn = "handle_forever"}

\* C15: a forever loop is left only by a stop whose nearest loop it is, or
\* by an error; while it runs, it checks no condition, nothing outside its
\* lines is dispatched, and each time its body returns the body is
\* dispatched again; a run inside a forever loop whose body has no stop
\* line never ends normally: it fails or goes on up to the step bound.
C15_ForeverEndsByStopOnly ==
    /\ [][\A j \in ForeverFrames :
            (Len(stack') < j \/ stack'[j].id # stack[j].id) =>
                \/ outcome' = "error"
                \/ /\ At("stop") /\ EnclosingLoop(stack) = j
                   /\ outcome' = "running"]_vars
    /\ [](\A j \in ForeverFrames :
            \A r \in (stack[j].id + 1)..Len(trace) :
                /\ trace[r].line \in stack[j].lo..(stack[j].lo + stack[j].n)
                /\ trace[r].id = stack[j].id => trace[r].ev \in {"iter", "stop"})
    /\ [][(Running /\ Top.fn = "handle_forever") =>
            /\ stack' = Append(SetTop(stack, [Top EXCEPT !.body = TRUE]),
                               Frame("run_block", TopLines, 0, Top.n))
            /\ trace' = Append(trace, Event("iter", Top.lo, 0, Top.id))]_vars
    /\ [](\A j \in ForeverFrames : ~HasStopLine(stack[j]) => outcome # "done")
    /\ ((\E j \in ForeverFrames : ~HasStopLine(stack[j]))
            ~> (outcome = "error" \/ Len(trace) >= MaxSteps))

\* A forever loop without a stop line is still going round when the step
\* bound is reached.
C15_Witness ==
    /\ Lines = ForeverNoStop
    /\ Len(trace) >= MaxSteps
    /\ ForeverFrames # {}
    /\ Count("iter", 2) >= 3
    /\ outcome = "running"

\* C16: the complete arm is the last arm of a conditional: no arm is
\* collected after an arm whose line is a complete line.
C16_CompleteIsLastArm ==
    \A j \in 1..Len(stack) :
        stack[j].fn = "handle_when" =>
            \A h \in 1..(Len(stack[j].branches) - 1) :
                ~startswith(strip(LineAt(List(stack[j].lo, stack[j].n),
                                         stack[j].branches[h].at)), W_complete)

\* The store statement line has not the shape `keep <name> to <expr>`.
KeepMalformed(line) == Len(split(line, 3)) < 4 \/ split(line, 3)[3] # W_to

\* The expression of a well-shaped store statement fails to evaluate.
KeepExprFails(line) ==
    /\ ~KeepMalformed(line)
    /\ strip(split(line, 3)[4]) # W_ask
    /\ ~evaluate(split(line, 3)[4], variables).ok

\* C17: a store statement that fails, by its shape or by its expression,
\* leaves every binding as it was and creates none; execute ends with the
\* error of that failure.
C17_FailedKeepChangesNothing ==
    [][(At("keep") /\ (KeepMalformed(CurLine) \/ KeepExprFails(CurLine))) =>
        /\ variables' = variables
        /\ outcome' = "error"
        /\ err'.kind = IF KeepMalformed(CurLine) THEN "Invalid keep statement"
                       ELSE "Invalid expression"]_vars

\* A store statement without `to` has failed inside a loop and x is still
\* bound to 1.
C17_Witness ==
    /\ outcome = "error"
    /\ err.kind = "Invalid keep statement"
    /\ Last.ev = "keep"
    /\ <<"x">> \in DOMAIN variables
    /\ variables[<<"x">>] = IntV(1)

\* No line of the program is a loop statement.
LoopFree ==
    \A l \in 1..Len(Lines) :
        Classify(strip(Lines[l])) \notin {"repeat until", "forever"}

Finished == outcome \in {"done", "error", "stop_escaped"}

\* C18: in a program without loop statements the index of a dispatch pass
\* only grows, the body a conditional dispatches is shorter than the list
\* the conditional is in, no line is dispatched twice, and execute
\* finishes.
C18_LoopFreeTerminates ==
    /\ [][LoopFree =>
            \A j \in 1..Len(stack) :
                (j <= Len(stack') /\ stack[j].fn = "run_block"
                    /\ stack'[j].fn = "run_block" /\ stack'[j] # stack[j]) =>
                        /\ stack'[j] = [stack[j] EXCEPT !.i = stack'[j].i]
                        /\ stack'[j].i > stack[j].i]_vars
    /\ [](LoopFree =>
            /\ \A j \in 2..Len(stack) :
                stack[j].fn = "run_block" => stack[j].n < stack[j - 1].n
            /\ \A l \in 1..Len(Lines) :
                Cardinality({q \in 1..Len(trace) :
                    trace[q].ev \in DispatchEvents /\ trace[q].line = l}) <= 1
            /\ \A p \in 1..Len(trace) :
                trace[p].ev = "when" => Len(EventsOf(p, {"arm"})) <= 1
            /\ Len(trace) < MaxSteps)
    /\ (LoopFree ~> Finished)

\* A program of conditionals only has run to its end.
C18_Witness ==
    /\ LoopFree
    /\ Lines = Arms3
    /\ outcome = "done"
    /\ Count("cond", 2) = 1 /\ Count("cond", 6) = 1

====
